---- MODULE Spec2Model ----
(***************************************************************************)
(* Verdict issuance and verification of the arbiter service:               *)
(* GeminiArbiter / ClaudeArbiter (arbitrateCase, validateBusinessRules,    *)
(* signTicket, verifyTicket), ResolveTicketSchema / ArbitrationRequest-    *)
(* Schema and the POST /arbitrate and POST /verify routes.                 *)
(*                                                                         *)
(* Conventions of the model                                                *)
(*  - a JavaScript string is a sequence of one-character strings;          *)
(*  - a JSON number is an exact fraction n/d in lowest terms (d > 0);      *)
(*  - a JavaScript object is the sequence of its own properties in         *)
(*    insertion order, each [k |-> key, v |-> value];                      *)
(*  - SHA-256 is collision free and Ed25519 is unforgeable: a digest is    *)
(*    the tagged message, a signature names the digest and the seed that   *)
(*    made it;                                                             *)
(*  - Date.prototype.toISOString renders the millisecond count in decimal  *)
(*    followed by the designator Z (the calendar fields are collapsed      *)
(*    into one field, the rendering stays injective).                      *)
(***************************************************************************)
EXTENDS Integers, Sequences, FiniteSets, TLC

(***************************************************************************)
(* Characters and strings                                                  *)
(***************************************************************************)
Digits == {"0", "1", "2", "3", "4", "5", "6", "7", "8", "9"}

HexChars == Digits \cup {"a", "b", "c", "d", "e", "f", "A", "B", "C", "D", "E", "F"}

DigitOf(n) ==
  CASE n = 0 -> "0" [] n = 1 -> "1" [] n = 2 -> "2" [] n = 3 -> "3" [] n = 4 -> "4"
    [] n = 5 -> "5" [] n = 6 -> "6" [] n = 7 -> "7" [] n = 8 -> "8" [] n = 9 -> "9"

\* String(n) / template-literal rendering of a non-negative integer.
RECURSIVE ToDigits(_)
ToDigits(n) ==
  IF n < 10 THEN <<DigitOf(n)>> ELSE ToDigits(n \div 10) \o <<DigitOf(n % 10)>>

Repeat(c, n) == [i \in 1..n |-> c]

\* String.prototype.padStart(width, fill)
PadStart(s, width, fill) ==
  IF Len(s) >= width THEN s ELSE Repeat(fill, width - Len(s)) \o s

\* /^[0-9]+$/
IsNumericString(s) == Len(s) >= 1 /\ \A i \in 1..Len(s) : s[i] \in Digits

\* Date.prototype.toISOString of the time ms
ToISOString(ms) == ToDigits(ms) \o <<"Z">>

\* z.string().datetime(): a UTC date-time ending in Z, no offset allowed
IsDatetime(s) ==
  /\ Len(s) >= 2
  /\ s[Len(s)] = "Z"
  /\ \A i \in 1..(Len(s) - 1) : s[i] \in Digits

(***************************************************************************)
(* JSON values and objects                                                 *)
(***************************************************************************)
JStr(s) == [t |-> "string", s |-> s, n |-> 0, d |-> 1, a |-> <<>>]
JNum(n, d) == [t |-> "number", s |-> <<>>, n |-> n, d |-> d, a |-> <<>>]
JArr(a) == [t |-> "array", s |-> <<>>, n |-> 0, d |-> 1, a |-> a]
JUndefined == [t |-> "undefined", s |-> <<>>, n |-> 0, d |-> 1, a |-> <<>>]

HasKey(obj, key) == \E i \in 1..Len(obj) : obj[i].k = key

\* obj[key]
Get(obj, key) ==
  IF HasKey(obj, key)
    THEN obj[CHOOSE i \in 1..Len(obj) : obj[i].k = key].v
    ELSE JUndefined

\* { ...obj, key: v }: an existing key keeps its position, a new one is appended
Set(obj, key, v) ==
  IF HasKey(obj, key)
    THEN [i \in 1..Len(obj) |-> IF obj[i].k = key THEN [k |-> key, v |-> v] ELSE obj[i]]
    ELSE Append(obj, [k |-> key, v |-> v])

RECURSIVE SelectDefined(_)
SelectDefined(obj) ==
  IF obj = <<>> THEN <<>>
  ELSE IF Head(obj).v.t = "undefined" THEN SelectDefined(Tail(obj))
  ELSE <<Head(obj)>> \o SelectDefined(Tail(obj))

\* JSON.stringify(obj, [...keys]) with a key list that leaves confidence out
JSONStringify_KeyList(obj) == SelectDefined(SelectSeq(obj, LAMBDA e : e.k # "confidence"))

\* JSON.stringify(obj, null, 0): the properties in insertion order, the ones
\* whose value is undefined left out; no whitespace.
JSONStringify(obj) == SelectDefined(obj)

(***************************************************************************)
(* Byte arrays, hex text, SHA-256 and Ed25519 (tweetnacl)                  *)
(***************************************************************************)
NoDigest == <<"none", <<>>>>

sha256(canonical) == <<"sha256", canonical>>

\* A byte array: what it is (a signature, a public key or other bytes), the
\* digest and the seed it was made from, and its length.
EmptyBytes == [kind |-> "raw", msg |-> NoDigest, seed |-> "", len |-> 0]

RawBytes(n) == [kind |-> "raw", msg |-> NoDigest, seed |-> "", len |-> n]

PublicKeyOf(seed) == [kind |-> "pub", msg |-> NoDigest, seed |-> seed, len |-> 32]

\* nacl.sign.keyPair.fromSeed(seed)
KeyPairFromSeed(seed) == [publicKey |-> PublicKeyOf(seed), secretKey |-> seed]

\* nacl.sign.detached(digest, secretKey): a 64-byte signature
NaclSignDetached(digest, secretKey) ==
  [kind |-> "sig", msg |-> digest, seed |-> secretKey, len |-> 64]

\* A verification that does not tie the signature to the public key
NaclVerifyDetached_AnyKey(digest, signature, publicKey) ==
  IF signature.len # 64 THEN "throw"
  ELSE IF publicKey.len # 32 THEN "throw"
  ELSE IF /\ signature.kind = "sig"
          /\ publicKey.kind = "pub"
          /\ signature.msg = digest
       THEN "true"
       ELSE "false"

\* nacl.sign.detached.verify(digest, signature, publicKey): throws on a bad
\* signature or public-key size, else tells whether the signature was made
\* for this digest with the secret key of this public key.
NaclVerifyDetached(digest, signature, publicKey) ==
  IF signature.len # 64 THEN "throw"
  ELSE IF publicKey.len # 32 THEN "throw"
  ELSE IF /\ signature.kind = "sig"
          /\ publicKey.kind = "pub"
          /\ signature.msg = digest
          /\ signature.seed = publicKey.seed
       THEN "true"
       ELSE "false"

\* A JavaScript value used as hex text: undefined, or the string made of the
\* hex rendering of `bytes` followed by the characters of `tail`.
HexUndefined == [t |-> "undefined", bytes |-> EmptyBytes, tail |-> <<>>]

\* Buffer.from(bytes).toString('hex')
ToHex(bytes) == [t |-> "string", bytes |-> bytes, tail |-> <<>>]

\* Number of leading two-character groups of s that are hex digits.
RECURSIVE HexPairs(_)
HexPairs(s) ==
  IF Len(s) >= 2 /\ s[1] \in HexChars /\ s[2] \in HexChars
    THEN 1 + HexPairs(SubSeq(s, 3, Len(s)))
    ELSE 0

\* Buffer.from(text, 'hex'): decoding stops at the first group that is not
\* two hex digits (an odd last character is dropped); the rest is ignored.
BufferFromHex(h) == [h.bytes EXCEPT !.len = @ + HexPairs(h.tail)]

(***************************************************************************)
(* ResolveTicketSchema (zod)                                               *)
(***************************************************************************)
SchemaLiteral ==
  << "h", "t", "t", "p", "s", ":", "/", "/", "a", "r", "t", "h", "a", ".", "n", "e",
     "t", "w", "o", "r", "k", "/", "s", "c", "h", "e", "m", "a", "s", "/", "r", "e",
     "s", "o", "l", "v", "e", "-", "t", "i", "c", "k", "e", "t", "-", "v", "1", ".",
     "j", "s", "o", "n" >>

MaxReasonShort == 200

S_RELEASE == <<"R", "E", "L", "E", "A", "S", "E">>

S_REFUND == <<"R", "E", "F", "U", "N", "D">>

TicketKeys ==
  <<"schema", "deal_id", "outcome", "reason_short", "rationale_cid",
    "violated_rules", "confidence", "nonce", "expires_at_utc">>

\* The field checks with the range of confidence left out
FieldValid_NoRange(key, v) ==
  CASE key = "schema" -> v.t = "string" /\ v.s = SchemaLiteral
    [] key = "deal_id" -> v.t = "string" /\ Len(v.s) >= 1
    [] key = "outcome" -> v.t = "string" /\ v.s \in {S_RELEASE, S_REFUND}
    [] key = "reason_short" -> v.t = "string" /\ Len(v.s) <= MaxReasonShort
    [] key = "rationale_cid" -> v.t = "string"
    [] key = "violated_rules" -> v.t = "array"
    [] key = "confidence" -> v.t = "number"
    [] key = "nonce" -> v.t = "string" /\ IsNumericString(v.s)
    [] key = "expires_at_utc" -> v.t = "string" /\ IsDatetime(v.s)

\* The check zod applies to the value v of the ticket field `key`.
FieldValid(key, v) ==
  CASE key = "schema" -> v.t = "string" /\ v.s = SchemaLiteral
    [] key = "deal_id" -> v.t = "string" /\ Len(v.s) >= 1
    [] key = "outcome" -> v.t = "string" /\ v.s \in {S_RELEASE, S_REFUND}
    [] key = "reason_short" -> v.t = "string" /\ Len(v.s) <= MaxReasonShort
    [] key = "rationale_cid" -> v.t = "string"
    [] key = "violated_rules" -> v.t = "array"
    [] key = "confidence" -> v.t = "number" /\ v.n >= 0 /\ v.n <= v.d
    [] key = "nonce" -> v.t = "string" /\ IsNumericString(v.s)
    [] key = "expires_at_utc" -> v.t = "string" /\ IsDatetime(v.s)

\* The schema with .passthrough(): unknown keys are kept after the nine
ResolveTicketSchemaParse_Passthrough(value) ==
  IF value.t = "object" /\ \A i \in 1..Len(TicketKeys) :
                               FieldValid(TicketKeys[i], Get(value.o, TicketKeys[i]))
    THEN [ok |-> TRUE,
          ticket |-> [i \in 1..Len(TicketKeys) |->
                        [k |-> TicketKeys[i], v |-> Get(value.o, TicketKeys[i])]]
                     \o SelectSeq(value.o, LAMBDA e : \A i \in 1..Len(TicketKeys) :
                                                        e.k # TicketKeys[i])]
    ELSE [ok |-> FALSE, ticket |-> <<>>]

\* ResolveTicketSchema.parse(value): throws a ZodError unless the value is an
\* object all of whose nine fields pass; the result holds the nine fields in
\* the order of the schema, unknown keys stripped.
ResolveTicketSchemaParse(value) ==
  IF value.t = "object" /\ \A i \in 1..Len(TicketKeys) :
                               FieldValid(TicketKeys[i], Get(value.o, TicketKeys[i]))
    THEN [ok |-> TRUE,
          ticket |-> [i \in 1..Len(TicketKeys) |->
                        [k |-> TicketKeys[i], v |-> Get(value.o, TicketKeys[i])]]]
    ELSE [ok |-> FALSE, ticket |-> <<>>]

(***************************************************************************)
(* The policy table (policy.ts)                                            *)
(***************************************************************************)
\* ESCROW_POLICY_V1, in the order of the array; a higher precedence wins.
ESCROW_POLICY_V1 ==
  << [id |-> <<"s", "e", "l", "l", "e", "r", "_", "d", "e", "a", "d", "l", "i", "n", "e", "_", "m", "i", "s", "s">>,
      precedence |-> 100, outcome |-> S_REFUND,
      required_evidence |-> <<>>],
     [id |-> <<"s", "e", "l", "l", "e", "r", "_", "d", "e", "l", "i", "v", "e", "r", "y", "_", "p", "r", "o", "o", "f">>,
      precedence |-> 90, outcome |-> S_RELEASE,
      required_evidence |-> <<"delivery_proof", "tracking_number">>],
     [id |-> <<"b", "u", "y", "e", "r", "_", "i", "t", "e", "m", "_", "n", "o", "t", "_", "a", "s", "_", "d", "e", "s", "c", "r", "i", "b", "e", "d">>,
      precedence |-> 80, outcome |-> S_REFUND,
      required_evidence |-> <<"photo_evidence", "description_comparison">>],
     [id |-> <<"b", "u", "y", "e", "r", "_", "d", "a", "m", "a", "g", "e", "_", "p", "r", "o", "o", "f">>,
      precedence |-> 75, outcome |-> S_REFUND,
      required_evidence |-> <<"damage_photos", "packaging_photos">>],
     [id |-> <<"s", "e", "l", "l", "e", "r", "_", "f", "r", "a", "u", "d", "_", "p", "r", "o", "o", "f">>,
      precedence |-> 95, outcome |-> S_REFUND,
      required_evidence |-> <<"fraud_evidence">>],
     [id |-> <<"b", "u", "y", "e", "r", "_", "f", "r", "a", "u", "d", "_", "p", "r", "o", "o", "f">>,
      precedence |-> 95, outcome |-> S_RELEASE,
      required_evidence |-> <<"fraud_evidence">>],
     [id |-> <<"i", "n", "s", "u", "f", "f", "i", "c", "i", "e", "n", "t", "_", "e", "v", "i", "d", "e", "n", "c", "e">>,
      precedence |-> 10, outcome |-> S_REFUND,
      required_evidence |-> <<>>] >>

S_insufficient_evidence == ESCROW_POLICY_V1[Len(ESCROW_POLICY_V1)].id

\* The identifiers of the rules of the table.
PolicyIds == {ESCROW_POLICY_V1[i].id : i \in 1..Len(ESCROW_POLICY_V1)}

(***************************************************************************)
(* signTicket / verifyTicket                                               *)
(***************************************************************************)
JObject(o) == [t |-> "object", o |-> o]

JNoObject == [t |-> "undefined", o |-> <<>>]

\* signTicket signing an indented rendering, JSON.stringify(ticket, null, 2)
signTicket_Indented(ticket, arbiterKeypair) ==
  LET canonical == <<[k |-> "indent", v |-> JNum(2, 1)]>> \o JSONStringify(ticket)
      digest == sha256(canonical)
      signature == NaclSignDetached(digest, arbiterKeypair.secretKey)
  IN [isObject |-> TRUE,
      ticket |-> JObject(ticket),
      arbiter_pubkey |-> ToHex(arbiterKeypair.publicKey),
      ed25519_signature |-> ToHex(signature)]

\* GeminiArbiter.signTicket and ClaudeArbiter.signTicket (the same code)
signTicket(ticket, arbiterKeypair) ==
  LET canonical == JSONStringify(ticket)
      digest == sha256(canonical)
      signature == NaclSignDetached(digest, arbiterKeypair.secretKey)
  IN [isObject |-> TRUE,
      ticket |-> JObject(ticket),
      arbiter_pubkey |-> ToHex(arbiterKeypair.publicKey),
      ed25519_signature |-> ToHex(signature)]

\* The body of the try block of verifyTicket: "true", "false", or "throw"
\* when one of its statements throws.
VerifyTry(signedTicket) ==
  IF ~signedTicket.isObject THEN "throw"
  ELSE IF signedTicket.ticket.t = "undefined" THEN "throw"
  ELSE IF signedTicket.ed25519_signature.t = "undefined" THEN "throw"
  ELSE IF signedTicket.arbiter_pubkey.t = "undefined" THEN "throw"
  ELSE LET canonical == JSONStringify(signedTicket.ticket.o)
           digest == sha256(canonical)
           signature == BufferFromHex(signedTicket.ed25519_signature)
           publicKey == BufferFromHex(signedTicket.arbiter_pubkey)
       IN NaclVerifyDetached(digest, signature, publicKey)

\* try { ... } catch { return false }
CatchFalse(outcome) == IF outcome = "throw" THEN "false" ELSE outcome

\* verifyTicket without its catch: what the try block throws escapes
GeminiVerifyTicket_NoCatch(signedTicket) == VerifyTry(signedTicket)

\* GeminiArbiter.verifyTicket
GeminiVerifyTicket(signedTicket) == CatchFalse(VerifyTry(signedTicket))

\* ClaudeArbiter.verifyTicket
ClaudeVerifyTicket(signedTicket) == CatchFalse(VerifyTry(signedTicket))

(***************************************************************************)
(* Configuration, requests and the analyzer                                *)
(***************************************************************************)
\* CONFIG.policy.disputeWindowCheck
DisputeWindowCheck == TRUE

\* The validity window of a ticket: 24 hours, in milliseconds.
ValidityMs == 24 * 60 * 60 * 1000

Providers == {"claude", "gemini"}

Procs == {"p1"}

\* Bounds of the model: the clock starts at StartMs and advances MaxTicks
\* times by TickMs.
StartMs == 2000

TickMs == 500

MaxTicks == 2

Seeds == {"seedA", "seedB"}

\* Math.floor(Math.random() * 1e9)
Randoms == {0, 123456789}

\* crypto.randomUUID(): 8-4-4-4-12 hex digits, version 4
UUID(c) ==
  Repeat(c, 8) \o <<"-">> \o Repeat(c, 4) \o <<"-", "4">> \o Repeat(c, 3)
    \o <<"-", "a">> \o Repeat(c, 3) \o <<"-">> \o Repeat(c, 12)

UUIDs == {UUID("0"), UUID("7")}

S_d1 == <<"d", "1">>

S_d2 == <<"d", "2">>

S_pending == <<"p", "e", "n", "d", "i", "n", "g">>

DealStatuses == {"Init", "Funded", "Disputed", "Resolved", "Released", "Refunded"}

EvidenceItem == [type |-> "text", submitted_by |-> "seller"]

\* The requests a caller may pass: deal.deal_id, deal.status, deal.dispute_by
\* (seconds) and the evidence list; the other fields are well formed.
Requests ==
  [deal : [deal_id : {S_d1, <<>>}, status : {"Disputed", "Funded"}, dispute_by : {2, 3}],
   evidence : {<<>>, <<EvidenceItem>>}]

\* ArbitrationRequestSchema.parse(body) succeeds
ArbitrationRequestSchemaOk(body) ==
  /\ Len(body.deal.deal_id) >= 1
  /\ body.deal.dispute_by > 0
  /\ body.deal.status \in DealStatuses
  /\ Len(body.evidence) >= 1

NoRequest == [deal |-> [deal_id |-> <<>>, status |-> "Init", dispute_by |-> 0], evidence |-> <<>>]

\* The JSON object the prompt asks the analyzer for (REQUIRED OUTPUT).
RequestedOutput(request, nonce, expiresAt) ==
  << [k |-> "schema", v |-> JStr(SchemaLiteral)],
     [k |-> "deal_id", v |-> JStr(request.deal.deal_id)],
     [k |-> "outcome", v |-> JStr(S_RELEASE)],
     [k |-> "reason_short", v |-> JStr(<<"o", "k">>)],
     [k |-> "rationale_cid", v |-> JStr(S_pending)],
     [k |-> "violated_rules", v |-> JArr(<<>>)],
     [k |-> "confidence", v |-> JNum(9, 10)],
     [k |-> "nonce", v |-> JStr(nonce)],
     [k |-> "expires_at_utc", v |-> JStr(expiresAt)] >>

\* What the analyzer may put in one field instead of the requested value.
Deviations ==
  { [k |-> "outcome", v |-> JStr(S_REFUND)],
    [k |-> "outcome", v |-> JStr(<<"S", "P", "L", "I", "T">>)],
    [k |-> "outcome", v |-> JStr(<<"r", "e", "l", "e", "a", "s", "e">>)],
    [k |-> "schema", v |-> JStr(<<"v", "2">>)],
    [k |-> "deal_id", v |-> JStr(S_d2)],
    [k |-> "deal_id", v |-> JStr(<<>>)],
    [k |-> "reason_short", v |-> JStr(Repeat("x", MaxReasonShort))],
    [k |-> "reason_short", v |-> JStr(Repeat("x", MaxReasonShort + 1))],
    [k |-> "rationale_cid", v |-> JUndefined],
    [k |-> "violated_rules", v |-> JArr(<<<<"n", "o", "_", "r", "u", "l", "e">>>>)],
    [k |-> "confidence", v |-> JNum(0, 1)],
    [k |-> "confidence", v |-> JNum(1, 1)],
    [k |-> "confidence", v |-> JNum(3, 2)],
    [k |-> "confidence", v |-> JNum(-1, 10)],
    [k |-> "confidence", v |-> JStr(<<"0", ".", "9">>)],
    [k |-> "nonce", v |-> JStr(<<"n", "1">>)],
    [k |-> "expires_at_utc", v |-> JStr(<<"1", "Z">>)],
    [k |-> "expires_at_utc", v |-> JStr(<<"1", "+", "0", "1">>)],
    [k |-> "note", v |-> JStr(<<"h", "i">>)] }

\* The nonce the analyzer may answer with: the one it was given or its own.
AnalyzerNonces(nonce) == {nonce, <<"4", "2">>}

\* The replies of the external model: an API error, an empty text, a text
\* holding no JSON, or a JSON object: the requested one (with the nonce given
\* or another numeric one), or that with one more field deviating.
Responses(request, nonce, expiresAt) ==
  { [kind |-> "error", value |-> JNoObject],
    [kind |-> "empty", value |-> JNoObject],
    [kind |-> "garbage", value |-> JNoObject] }
  \cup
  { [kind |-> "json", value |-> JObject(RequestedOutput(request, n, expiresAt))] :
       n \in AnalyzerNonces(nonce) }
  \cup
  { [kind |-> "json",
     value |-> JObject(Set(RequestedOutput(request, n, expiresAt), dv.k, dv.v))] :
       n \in AnalyzerNonces(nonce), dv \in Deviations }

(***************************************************************************)
(* State                                                                   *)
(***************************************************************************)
VARIABLES
  provider,        \* CONFIG.ai.provider
  arbiterKeypair,  \* the arbiter's keypair, made from the configured seed
  nowMs,           \* Date.now()
  inv,             \* per caller: the arbitrateCase invocation and its outcome
  issued,          \* the signed tickets returned that their holders have kept
  checks,          \* the verifications of kept tickets made so far
  config,          \* CONFIG.arbiter.secretHex and CONFIG.security.adminKey
  http             \* the last request that went through requireAuth

vars == <<provider, arbiterKeypair, nowMs, inv, issued, checks, config, http>>

NoSigned ==
  [isObject |-> FALSE, ticket |-> JNoObject,
   arbiter_pubkey |-> HexUndefined, ed25519_signature |-> HexUndefined]

NoError == [name |-> "", message |-> "", cause |-> ""]

NoVerified == [tamper |-> "", key |-> "", input |-> NoSigned, result |-> ""]

NoResponse == [kind |-> "none", value |-> JNoObject]

\* pc: idle; evidence (awaiting prepareEvidenceParts); model (awaiting the
\* model's reply); returned (a signed ticket); rejected (an error).
\* response is the reply of the model the invocation received.
Idle ==
  [pc |-> "idle", via |-> "direct", request |-> NoRequest, validatedAt |-> 0,
   nonce |-> <<>>, expiresAtMs |-> 0, modelCalls |-> 0, response |-> NoResponse,
   signed |-> NoSigned,
   error |-> NoError, status |-> 0, verified |-> NoVerified]

E_Window == "Dispute period has not yet ended"

E_Status == "Deal must be in Disputed status for arbitration"

E_Engine == "Arbitration engine error"

Err(name, message) == [name |-> name, message |-> message, cause |-> ""]

\* new Error(`Arbitration engine error: ${error.message}`)
Wrapped(message) == [name |-> "Error", message |-> E_Engine, cause |-> message]

(***************************************************************************)
(* validateBusinessRules                                                   *)
(***************************************************************************)
\* GeminiArbiter.validateBusinessRules: "ok" or the message of the Error
GeminiValidateBusinessRules(request, dateNow) ==
  IF DisputeWindowCheck /\ (dateNow \div 1000) < request.deal.dispute_by
    THEN E_Window
  ELSE IF request.deal.status # "Disputed"
    THEN E_Status
  ELSE "ok"

\* validateBusinessRules without its status check
ClaudeValidateBusinessRules_WindowOnly(request, dateNow) ==
  IF DisputeWindowCheck /\ (dateNow \div 1000) < request.deal.dispute_by
    THEN E_Window
  ELSE "ok"

\* ClaudeArbiter.validateBusinessRules
ClaudeValidateBusinessRules(request, dateNow) ==
  IF DisputeWindowCheck /\ (dateNow \div 1000) < request.deal.dispute_by
    THEN E_Window
  ELSE IF request.deal.status # "Disputed"
    THEN E_Status
  ELSE "ok"

(***************************************************************************)
(* arbitrateCase                                                           *)
(***************************************************************************)
\* The HTTP status POST /arbitrate answers for an outcome of arbitrateCase.
HttpStatus(via, error) ==
  IF via # "http" THEN 0
  ELSE IF error = NoError THEN 200
  ELSE IF error.name = "ZodError" THEN 400
  ELSE 500

Rejected(rec, error) ==
  [rec EXCEPT !.pc = "rejected", !.error = error, !.status = HttpStatus(rec.via, error)]

Returned(rec, signedTicket) ==
  [rec EXCEPT !.pc = "returned", !.signed = signedTicket,
              !.status = HttpStatus(rec.via, NoError)]

\* arbitrateCase making the nonce and calling the model before it validates
ClaudeArbitrateCaseCall_ValidateLast(rec, dateNow, random) ==
  LET started == [rec EXCEPT !.validatedAt = dateNow \div 1000,
                             !.nonce = ToDigits(dateNow) \o PadStart(ToDigits(random), 9, "0"),
                             !.expiresAtMs = dateNow + ValidityMs,
                             !.modelCalls = @ + 1]
      failure == IF DisputeWindowCheck /\ (dateNow \div 1000) < rec.request.deal.dispute_by
                   THEN E_Window
                 ELSE IF rec.request.deal.status # "Disputed" THEN E_Status
                 ELSE "ok"
  IN IF failure # "ok"
       THEN Rejected(started, Err("Error", failure))
       ELSE [started EXCEPT !.pc = "model"]

\* ClaudeArbiter.arbitrateCase up to its await of the model call
ClaudeArbitrateCaseCall(rec, dateNow, random) ==
  LET failure == ClaudeValidateBusinessRules(rec.request, dateNow)
  IN IF failure # "ok"
       THEN Rejected([rec EXCEPT !.validatedAt = dateNow \div 1000], Err("Error", failure))
       ELSE [rec EXCEPT !.pc = "model",
                        !.validatedAt = dateNow \div 1000,
                        !.nonce = ToDigits(dateNow) \o PadStart(ToDigits(random), 9, "0"),
                        !.expiresAtMs = dateNow + ValidityMs,
                        !.modelCalls = @ + 1]

\* arbitrateCase signing the model's object without ResolveTicketSchema.parse
ClaudeArbitrateCaseReply_NoParse(rec, response, keypair) ==
  IF response.kind = "error" THEN Rejected(rec, Err("APIError", "model call failed"))
  ELSE IF response.kind = "empty" THEN Rejected(rec, Err("Error", "Empty response from Claude"))
  ELSE IF response.kind = "garbage"
    THEN Rejected(rec, Err("Error", "No JSON object found in Claude response"))
  ELSE Returned(rec, signTicket(Set(Set(response.value.o, "nonce", JStr(rec.nonce)),
                                    "expires_at_utc", JStr(ToISOString(rec.expiresAtMs))),
                                keypair))

\* ClaudeArbiter.arbitrateCase from the model's reply on
ClaudeArbitrateCaseReply(rec, response, keypair) ==
  IF response.kind = "error" THEN Rejected(rec, Err("APIError", "model call failed"))
  ELSE IF response.kind = "empty" THEN Rejected(rec, Err("Error", "Empty response from Claude"))
  ELSE IF response.kind = "garbage"
    THEN Rejected(rec, Err("Error", "No JSON object found in Claude response"))
  ELSE LET parsed == response.value.o
           merged == Set(Set(parsed, "nonce", JStr(rec.nonce)),
                         "expires_at_utc", JStr(ToISOString(rec.expiresAtMs)))
           result == ResolveTicketSchemaParse(JObject(merged))
       IN IF result.ok
            THEN Returned(rec, signTicket(result.ticket, keypair))
            ELSE Rejected(rec, Err("ZodError", "invalid ticket"))

\* GeminiArbiter.arbitrateCase up to its await of prepareEvidenceParts
GeminiArbitrateCaseCall(rec, dateNow) ==
  LET failure == GeminiValidateBusinessRules(rec.request, dateNow)
  IN IF failure # "ok"
       THEN Rejected([rec EXCEPT !.validatedAt = dateNow \div 1000], Err("Error", failure))
       ELSE [rec EXCEPT !.pc = "evidence", !.validatedAt = dateNow \div 1000]

\* GeminiArbiter.arbitrateCase from the evidence parts to the await of the
\* model call
GeminiArbitrateCaseEvidence(rec, dateNow, uuid) ==
  [rec EXCEPT !.pc = "model",
              !.nonce = uuid,
              !.expiresAtMs = dateNow + ValidityMs,
              !.modelCalls = @ + 1]

\* GeminiArbiter.arbitrateCase from the model's reply on: whatever is thrown
\* in the try block is wrapped in a new Error
GeminiArbitrateCaseReply(rec, response, keypair) ==
  IF response.kind = "error" THEN Rejected(rec, Wrapped("model call failed"))
  ELSE IF response.kind = "empty" THEN Rejected(rec, Wrapped("Empty response from Gemini"))
  ELSE IF response.kind = "garbage" THEN Rejected(rec, Wrapped("Unexpected token"))
  ELSE LET result == ResolveTicketSchemaParse(response.value)
       IN IF result.ok
            THEN Returned(rec, signTicket(result.ticket, keypair))
            ELSE Rejected(rec, Wrapped("invalid ticket"))

(***************************************************************************)
(* What a holder may do to a signed ticket before verifying it             *)
(***************************************************************************)
\* Another value for the ticket field `key`, different from the current one.
OtherValue(key, cur) ==
  CASE key = "schema" -> JStr(<<"v", "2">>)
    [] key = "deal_id" -> IF cur.s = S_d2 THEN JStr(S_d1) ELSE JStr(S_d2)
    [] key = "outcome" -> IF cur.s = S_RELEASE THEN JStr(S_REFUND) ELSE JStr(S_RELEASE)
    [] key = "reason_short" -> JStr(Append(cur.s, "!"))
    [] key = "rationale_cid" -> JStr(Append(cur.s, "2"))
    [] key = "violated_rules" -> JArr(Append(cur.a, <<"x">>))
    [] key = "confidence" -> IF cur.n = cur.d THEN JNum(0, 1) ELSE JNum(1, 1)
    [] key = "nonce" -> JStr(Append(cur.s, "0"))
    [] key = "expires_at_utc" -> JStr(<<"0">> \o cur.s)

OtherSeed(seed) == CHOOSE s \in Seeds : s # seed

\* The same properties with the same values, inserted in the opposite order.
Reversed(obj) == [i \in 1..Len(obj) |-> obj[Len(obj) + 1 - i]]

Tampers ==
  { [kind |-> "none", key |-> ""] }
  \cup { [kind |-> "field", key |-> TicketKeys[i]] : i \in 1..Len(TicketKeys) }
  \cup { [kind |-> k, key |-> ""] :
           k \in {"no_signed", "no_ticket", "no_pubkey", "no_signature",
                  "sig_not_hex", "sig_then_junk", "sig_then_odd_digit", "sig_then_byte",
                  "sig_short", "sig_zero", "sig_other_key",
                  "pubkey_other", "pubkey_then_junk", "pubkey_not_hex",
                  "reorder", "add_field"} }

Tamper(st, t) ==
  CASE t.kind = "none" -> st
    [] t.kind = "field" ->
         [st EXCEPT !.ticket.o = Set(@, t.key, OtherValue(t.key, Get(@, t.key)))]
    [] t.kind = "no_signed" -> NoSigned
    [] t.kind = "no_ticket" -> [st EXCEPT !.ticket = JNoObject]
    [] t.kind = "no_pubkey" -> [st EXCEPT !.arbiter_pubkey = HexUndefined]
    [] t.kind = "no_signature" -> [st EXCEPT !.ed25519_signature = HexUndefined]
    [] t.kind = "sig_not_hex" ->
         [st EXCEPT !.ed25519_signature = [ToHex(EmptyBytes) EXCEPT !.tail = <<"z", "z">>]]
    [] t.kind = "sig_then_junk" -> [st EXCEPT !.ed25519_signature.tail = <<"z", "z">>]
    [] t.kind = "sig_then_odd_digit" -> [st EXCEPT !.ed25519_signature.tail = <<"a">>]
    [] t.kind = "sig_then_byte" -> [st EXCEPT !.ed25519_signature.tail = <<"a", "b">>]
    [] t.kind = "sig_short" -> [st EXCEPT !.ed25519_signature = ToHex(RawBytes(10))]
    [] t.kind = "sig_zero" -> [st EXCEPT !.ed25519_signature = ToHex(RawBytes(64))]
    [] t.kind = "sig_other_key" ->
         [st EXCEPT !.ed25519_signature.bytes.seed = OtherSeed(@)]
    [] t.kind = "pubkey_other" ->
         [st EXCEPT !.arbiter_pubkey.bytes.seed = OtherSeed(@)]
    [] t.kind = "pubkey_then_junk" -> [st EXCEPT !.arbiter_pubkey.tail = <<"z", "z">>]
    [] t.kind = "pubkey_not_hex" ->
         [st EXCEPT !.arbiter_pubkey = [ToHex(EmptyBytes) EXCEPT !.tail = <<"x", "y">>]]
    [] t.kind = "reorder" -> [st EXCEPT !.ticket.o = Reversed(@)]
    [] t.kind = "add_field" -> [st EXCEPT !.ticket.o = Set(@, "note", JStr(<<"h", "i">>))]

\* n bytes of key material: the 32 bytes of the seed named `seed`, cut or
\* followed by more bytes.
SeedBytes(seed, n) == [kind |-> "seed", msg |-> NoDigest, seed |-> seed, len |-> n]

NoKeypair == [publicKey |-> EmptyBytes, secretKey |-> ""]

\* The keypair of the arbiter made at start-up from CONFIG.arbiter.secretHex,
\* NoKeypair when start-up throws: config.ts throws on a missing or empty
\* secret; the constructor decodes the hex text, takes the first 32 bytes
\* (slice(0, 32)) and nacl.sign.keyPair.fromSeed throws unless they are 32.
FromSecretHex(secretHex) ==
  IF secretHex.t = "undefined" \/ (secretHex.bytes.len = 0 /\ secretHex.tail = <<>>)
    THEN NoKeypair
  ELSE LET secretKey == BufferFromHex(secretHex)
           seed == [secretKey EXCEPT !.len = IF @ > 32 THEN 32 ELSE @]
       IN IF seed.len # 32
            THEN NoKeypair
            ELSE KeyPairFromSeed(seed.seed)

\* process.env.ARBITER_ED25519_SECRET_HEX: missing, empty, the 64 hex digits
\* of a seed, fewer, more (33 bytes; the 64 bytes of a whole secret key),
\* the 64 digits followed by characters that are not hex, and no hex at all.
SecretHexes ==
  { HexUndefined, ToHex(EmptyBytes),
    [ToHex(EmptyBytes) EXCEPT !.tail = <<"z", "z">>] }
  \cup { ToHex(SeedBytes(s, n)) : s \in Seeds, n \in {31, 32, 33, 64} }
  \cup { [ToHex(SeedBytes(s, 32)) EXCEPT !.tail = <<"z", "z">>] : s \in Seeds }

\* process.env.ARBITER_ADMIN_KEY || '' ("" when not configured), and the
\* x-admin-key header of a request ("" when missing)
AdminKeys == {"", "k1"}

HeaderKeys == {"", "k1", "k2"}

OpenPaths == {"/health", "/arbiter/pubkey"}

NoHttp == [path |-> "", key |-> "", status |-> 0, handler |-> "none"]

\* requireAuth refusing only a request without a key
requireAuth_MissingOnly(path, key, adminKey) ==
  IF path \in OpenPaths THEN "next"
  ELSE IF adminKey = "" THEN "next"
  ELSE IF key = "" THEN "401"
  ELSE "next"

\* requireAuth: "next" or "401"
requireAuth(path, key, adminKey) ==
  IF path \in OpenPaths THEN "next"
  ELSE IF adminKey = "" THEN "next"
  ELSE IF key = "" \/ key # adminKey THEN "401"
  ELSE "next"

\* res.status(401).json(...): no handler runs
Unauthorized(path, key) == [path |-> path, key |-> key, status |-> 401, handler |-> "none"]

\* new Date(text).getTime() for a text ToISOString made
RECURSIVE FromDigits(_)
FromDigits(s) ==
  IF s = <<>> THEN 0
  ELSE 10 * FromDigits(SubSeq(s, 1, Len(s) - 1))
         + (CHOOSE n \in 0..9 : DigitOf(n) = s[Len(s)])

DateParse(text) == FromDigits(SubSeq(text, 1, Len(text) - 1))

\* The ticket's expires_at_utc is not after dateNow.
Expired(signedTicket, dateNow) ==
  DateParse(Get(signedTicket.ticket.o, "expires_at_utc").s) <= dateNow

\* The nonce of the ticket is the nonce of a ticket verified before.
NonceSeen(signedTicket, verifiedBefore) ==
  \E c \in verifiedBefore :
    Get(c.input.ticket.o, "nonce") = Get(signedTicket.ticket.o, "nonce")

\* A handler that refuses a ticket after its expires_at_utc
PostVerify_ChecksExpiry(prov, body, dateNow, verifiedBefore) ==
  IF body.isObject /\ body.ticket.t = "object" /\ Expired(body, dateNow)
    THEN "false"
    ELSE CatchFalse(VerifyTry(body))

\* The handler of POST /verify, called at time dateNow after the
\* verifications verifiedBefore: it reads neither.
PostVerify(prov, body, dateNow, verifiedBefore) ==
  IF prov = "claude" THEN ClaudeVerifyTicket(body) ELSE GeminiVerifyTicket(body)

(***************************************************************************)
(* Actions                                                                 *)
(***************************************************************************)
Init ==
  /\ provider \in Providers
  /\ arbiterKeypair \in {KeyPairFromSeed(s) : s \in Seeds}
  /\ nowMs = StartMs
  /\ inv = [p \in Procs |-> Idle]
  /\ issued = <<>>
  /\ checks = {}
  /\ config = [secretHex |-> ToHex(SeedBytes(arbiterKeypair.secretKey, 32)), adminKey |-> ""]
  /\ http = NoHttp

Callable(p) == inv[p].pc = "idle"

\* arbitrateCase(request) entered; Claude runs to the await of the model call,
\* Gemini to the await of prepareEvidenceParts.
Enter(p, request, via) ==
  LET rec == [Idle EXCEPT !.request = request, !.via = via]
  IN IF provider = "claude"
       THEN \E random \in Randoms :
              inv' = [inv EXCEPT ![p] = ClaudeArbitrateCaseCall(rec, nowMs, random)]
       ELSE inv' = [inv EXCEPT ![p] = GeminiArbitrateCaseCall(rec, nowMs)]

\* A caller inside the process calls arbiter.arbitrateCase(request).
ArbitrateCase(p) ==
  /\ Callable(p)
  /\ \E request \in Requests : Enter(p, request, "direct")
  /\ UNCHANGED <<provider, arbiterKeypair, nowMs, issued, checks, config, http>>

\* POST /arbitrate: the body is parsed with ArbitrationRequestSchema, then
\* arbitrateCase is called.
PostArbitrate(p) ==
  /\ Callable(p)
  /\ \E body \in Requests :
       IF ArbitrationRequestSchemaOk(body)
         THEN Enter(p, body, "http")
         ELSE inv' = [inv EXCEPT ![p] =
                Rejected([Idle EXCEPT !.request = body, !.via = "http"],
                         Err("ZodError", "invalid request"))]
  /\ UNCHANGED <<provider, arbiterKeypair, nowMs, issued, checks, config, http>>

\* Gemini: prepareEvidenceParts resolves; nonce and expiry are made and the
\* model is called.
EvidenceReady(p) ==
  /\ provider = "gemini"
  /\ inv[p].pc = "evidence"
  /\ \E uuid \in UUIDs :
       inv' = [inv EXCEPT ![p] = GeminiArbitrateCaseEvidence(@, nowMs, uuid)]
  /\ UNCHANGED <<provider, arbiterKeypair, nowMs, issued, checks, config, http>>

\* The model call settles with one of `responses` and arbitrateCase runs to
\* its end.
Reply(p, responses) ==
  /\ inv[p].pc = "model"
  /\ \E response \in responses :
       inv' = [inv EXCEPT ![p] =
                 IF provider = "claude"
                   THEN ClaudeArbitrateCaseReply([@ EXCEPT !.response = response],
                                                 response, arbiterKeypair)
                   ELSE GeminiArbitrateCaseReply([@ EXCEPT !.response = response],
                                                 response, arbiterKeypair)]
  /\ UNCHANGED <<provider, arbiterKeypair, nowMs, issued, checks, config, http>>

ModelReply(p) ==
  Reply(p, Responses(inv[p].request, inv[p].nonce, ToISOString(inv[p].expiresAtMs)))

\* POST /verify (or verifyTicket called directly) on the ticket returned to
\* p, possibly altered by its holder; the outcome of the verification is kept
\* with the invocation.
Verify(p) ==
  /\ inv[p].pc = "returned"
  /\ inv[p].verified = NoVerified
  /\ \E t \in Tampers :
       LET input == Tamper(inv[p].signed, t)
       IN inv' = [inv EXCEPT ![p].verified =
                    [tamper |-> t.kind, key |-> t.key, input |-> input,
                     result |-> PostVerify(provider, input, nowMs, checks)]]
  /\ UNCHANGED <<provider, arbiterKeypair, nowMs, issued, checks, config, http>>

\* The caller has taken the outcome of its invocation and may call again.
Settle(p) ==
  /\ inv[p].pc \in {"returned", "rejected"}
  /\ inv' = [inv EXCEPT ![p] = Idle]
  /\ UNCHANGED <<provider, arbiterKeypair, nowMs, issued, checks, config, http>>

\* Time passes.
Tick ==
  /\ nowMs < StartMs + MaxTicks * TickMs
  /\ nowMs' = nowMs + TickMs
  /\ UNCHANGED <<provider, arbiterKeypair, inv, issued, checks, config, http>>

Next ==
  \/ \E p \in Procs : ArbitrateCase(p)
  \/ \E p \in Procs : PostArbitrate(p)
  \/ \E p \in Procs : EvidenceReady(p)
  \/ \E p \in Procs : ModelReply(p)
  \/ \E p \in Procs : Verify(p)
  \/ \E p \in Procs : Settle(p)
  \/ Tick

Spec == Init /\ [][Next]_vars

(***************************************************************************)
(* The tickets issued over time: eligible requests only, the holders keep  *)
(* the tickets returned and verify them later                              *)
(***************************************************************************)
\* Bounds of the model: the number of tickets kept and the number of
\* verifications of kept tickets.
MaxIssued == 2

MaxChecks == 2

EligibleRequest ==
  [deal |-> [deal_id |-> S_d1, status |-> "Disputed", dispute_by |-> 2],
   evidence |-> <<EvidenceItem>>]

\* The replies of a model that answers with JSON: the requested object, with
\* the nonce given or its own, and with the expiry given or its own.
JsonResponses(request, nonce, expiresAt) ==
  { [kind |-> "json", value |-> JObject(RequestedOutput(request, n, x))] :
       n \in AnalyzerNonces(nonce), x \in {expiresAt, <<"1", "Z">>} }

ArbitrateEligible(p) ==
  /\ Callable(p)
  /\ Len(issued) < MaxIssued
  /\ Enter(p, EligibleRequest, "direct")
  /\ UNCHANGED <<provider, arbiterKeypair, nowMs, issued, checks, config, http>>

JsonReply(p) ==
  Reply(p, JsonResponses(inv[p].request, inv[p].nonce, ToISOString(inv[p].expiresAtMs)))

\* The caller keeps the signed ticket returned to it.
Keep(p) ==
  /\ inv[p].pc = "returned"
  /\ issued' = Append(issued, inv[p].signed)
  /\ inv' = [inv EXCEPT ![p] = Idle]
  /\ UNCHANGED <<provider, arbiterKeypair, nowMs, checks, config, http>>

\* The caller takes the error of its invocation.
Fail(p) ==
  /\ inv[p].pc = "rejected"
  /\ inv' = [inv EXCEPT ![p] = Idle]
  /\ UNCHANGED <<provider, arbiterKeypair, nowMs, issued, checks, config, http>>

\* POST /verify on a ticket kept, at the current time.
VerifyKept ==
  /\ Cardinality(checks) < MaxChecks
  /\ \E i \in 1..Len(issued) :
       checks' = checks \cup
         { [input |-> issued[i],
            expired |-> Expired(issued[i], nowMs),
            seen |-> NonceSeen(issued[i], checks),
            later |-> Len(issued) > i,
            result |-> PostVerify(provider, issued[i], nowMs, checks)] }
  /\ checks' # checks
  /\ UNCHANGED <<provider, arbiterKeypair, nowMs, inv, issued, config, http>>

\* The validity window passes.
Expire ==
  /\ nowMs < StartMs + ValidityMs
  /\ nowMs' = nowMs + ValidityMs
  /\ UNCHANGED <<provider, arbiterKeypair, inv, issued, checks, config, http>>

NextIssued ==
  \/ \E p \in Procs : ArbitrateEligible(p)
  \/ \E p \in Procs : EvidenceReady(p)
  \/ \E p \in Procs : JsonReply(p)
  \/ \E p \in Procs : Keep(p)
  \/ \E p \in Procs : Fail(p)
  \/ VerifyKept
  \/ Expire

SpecIssued == Init /\ [][NextIssued]_vars

(***************************************************************************)
(* Concurrent invocations on one arbiter: two tasks, each with a request   *)
(* of its own, their steps interleaved                                     *)
(***************************************************************************)
Tasks == {"t1", "t2"}

\* The request of task t: an eligible one, for a deal of its own.
OwnRequest(t) ==
  [EligibleRequest EXCEPT !.deal.deal_id = IF t = "t1" THEN S_d1 ELSE S_d2]

\* The JSON replies of the model: the requested object, with the deal_id, the
\* nonce and the expiry given or with others.
TaskResponses(request, nonce, expiresAt) ==
  { [kind |-> "json",
     value |-> JObject(RequestedOutput([request EXCEPT !.deal.deal_id = d], n, x))] :
       d \in {S_d1, S_d2}, n \in AnalyzerNonces(nonce), x \in {expiresAt, <<"1", "Z">>} }

InitConcurrent ==
  /\ provider \in Providers
  /\ arbiterKeypair \in {KeyPairFromSeed(s) : s \in Seeds}
  /\ nowMs = StartMs
  /\ inv = [t \in Tasks |-> Idle]
  /\ issued = <<>>
  /\ checks = {}
  /\ config = [secretHex |-> ToHex(SeedBytes(arbiterKeypair.secretKey, 32)), adminKey |-> ""]
  /\ http = NoHttp

ArbitrateOwn(t) ==
  /\ Callable(t)
  /\ Enter(t, OwnRequest(t), "direct")
  /\ UNCHANGED <<provider, arbiterKeypair, nowMs, issued, checks, config, http>>

TaskReply(t) ==
  Reply(t, TaskResponses(inv[t].request, inv[t].nonce, ToISOString(inv[t].expiresAtMs)))

NextConcurrent ==
  \/ \E t \in Tasks : ArbitrateOwn(t)
  \/ \E t \in Tasks : EvidenceReady(t)
  \/ \E t \in Tasks : TaskReply(t)
  \/ \E t \in Tasks : Settle(t)
  \/ Tick

SpecConcurrent == InitConcurrent /\ [][NextConcurrent]_vars

(***************************************************************************)
(* The service from start-up: the key material and the admin key as        *)
(* configured, every request going through requireAuth                    *)
(***************************************************************************)
InitService ==
  /\ provider \in Providers
  /\ config \in [secretHex : SecretHexes, adminKey : AdminKeys]
  /\ arbiterKeypair = FromSecretHex(config.secretHex)
  /\ nowMs = StartMs
  /\ inv = [p \in Procs |-> Idle]
  /\ issued = <<>>
  /\ checks = {}
  /\ http = NoHttp

\* The process is up: config.ts and the constructor did not throw.
Started == arbiterKeypair # NoKeypair

\* POST /arbitrate with an eligible body and the x-admin-key `key`
HttpArbitrate(p) ==
  /\ Started
  /\ Callable(p)
  /\ \E key \in HeaderKeys :
       IF requireAuth("/arbitrate", key, config.adminKey) = "401"
         THEN /\ http' = Unauthorized("/arbitrate", key)
              /\ UNCHANGED inv
         ELSE /\ http' = [path |-> "/arbitrate", key |-> key, status |-> 0,
                          handler |-> "/arbitrate"]
              /\ Enter(p, EligibleRequest, "http")
  /\ UNCHANGED <<provider, arbiterKeypair, nowMs, issued, checks, config>>

\* POST /verify of the ticket returned to p, with the x-admin-key `key`
HttpVerify(p) ==
  /\ Started
  /\ inv[p].pc = "returned"
  /\ inv[p].verified = NoVerified
  /\ \E key \in HeaderKeys :
       IF requireAuth("/verify", key, config.adminKey) = "401"
         THEN /\ http' = Unauthorized("/verify", key)
              /\ UNCHANGED inv
         ELSE /\ http' = [path |-> "/verify", key |-> key, status |-> 200,
                          handler |-> "/verify"]
              /\ inv' = [inv EXCEPT ![p].verified =
                           [tamper |-> "none", key |-> "", input |-> inv[p].signed,
                            result |-> PostVerify(provider, inv[p].signed, nowMs, checks)]]
  /\ UNCHANGED <<provider, arbiterKeypair, nowMs, issued, checks, config>>

\* GET /health, GET /arbiter/pubkey, or a path without a route
HttpGet ==
  /\ Started
  /\ \E path \in OpenPaths \cup {"/unknown"}, key \in HeaderKeys :
       http' = IF requireAuth(path, key, config.adminKey) = "401"
                 THEN Unauthorized(path, key)
               ELSE IF path \in OpenPaths
                 THEN [path |-> path, key |-> key, status |-> 200, handler |-> path]
               ELSE [path |-> path, key |-> key, status |-> 404, handler |-> "notFound"]
  /\ UNCHANGED <<provider, arbiterKeypair, nowMs, inv, issued, checks, config>>

NextService ==
  \/ \E p \in Procs : HttpArbitrate(p)
  \/ \E p \in Procs : EvidenceReady(p)
  \/ \E p \in Procs : JsonReply(p)
  \/ \E p \in Procs : HttpVerify(p)
  \/ \E p \in Procs : Settle(p)
  \/ HttpGet

SpecService == InitService /\ [][NextService]_vars

(***************************************************************************)
(* Properties                                                              *)
(***************************************************************************)
Field(p, key) == Get(inv[p].signed.ticket.o, key)

\* C1: round trip. The signed ticket arbitrateCase returns, as signTicket
\* made it, verifies: verifyTicket of either arbiter returns true on it, and
\* every verification of the unaltered ticket has answered true.
C1_RoundTrip ==
  \A p \in Procs :
    /\ inv[p].pc = "returned" =>
         /\ GeminiVerifyTicket(inv[p].signed) = "true"
         /\ ClaudeVerifyTicket(inv[p].signed) = "true"
    /\ inv[p].verified.tamper = "none" => inv[p].verified.result = "true"

C1_Witness ==
  \E p \in Procs :
    /\ inv[p].pc = "returned"
    /\ inv[p].verified.tamper = "none"
    /\ inv[p].verified.result = "true"
    /\ arbiterKeypair = KeyPairFromSeed("seedB")

\* C2: tamper law. A signed ticket one of whose nine ticket fields was given
\* another value, with arbiter_pubkey and ed25519_signature kept, does not
\* verify.
C2_TamperLaw ==
  \A p \in Procs :
    LET v == inv[p].verified
    IN v.tamper = "field" =>
         /\ Get(v.input.ticket.o, v.key) # Field(p, v.key)
         /\ v.input.arbiter_pubkey = inv[p].signed.arbiter_pubkey
         /\ v.input.ed25519_signature = inv[p].signed.ed25519_signature
         /\ v.result = "false"

C2_Witness ==
  \E p \in Procs :
    /\ inv[p].verified.tamper = "field"
    /\ inv[p].verified.key = "confidence"
    /\ inv[p].verified.result = "false"

\* C3: a signed ticket is returned only for a request whose deal.status is
\* Disputed and (the dispute-window check being enabled) whose dispute_by is
\* not later than the time of validation, in seconds; the dispute-window
\* error is raised only when that time is before dispute_by, so a request with
\* now equal to dispute_by is eligible.
C3_EligibleOnly ==
  \A p \in Procs :
    /\ inv[p].pc \in {"evidence", "model", "returned"} =>
         /\ inv[p].request.deal.status = "Disputed"
         /\ DisputeWindowCheck => inv[p].request.deal.dispute_by <= inv[p].validatedAt
         /\ inv[p].validatedAt <= nowMs \div 1000
    /\ inv[p].error.message = E_Window =>
         inv[p].validatedAt < inv[p].request.deal.dispute_by

C3_Witness ==
  \E p \in Procs :
    /\ inv[p].pc = "returned"
    /\ inv[p].request.deal.dispute_by = inv[p].validatedAt
    /\ inv[p].request.deal.status = "Disputed"

\* C4 (as claimed): verifyTicket answers a boolean, false for every input
\* that is not the signed ticket as issued (a missing signed ticket or
\* ticket, a non-hex or wrong-length arbiter_pubkey or ed25519_signature, a
\* mismatch), true only for the ticket, key and signature as issued.
C4_FalseOnEveryMalformedInput ==
  \A p \in Procs :
    LET v == inv[p].verified
    IN v.result # "" =>
         /\ v.result \in {"true", "false"}
         /\ v.input # inv[p].signed => v.result = "false"

\* C5: when validateBusinessRules (or, on POST /arbitrate, the request
\* schema) fails, the invocation is rejected with the model never called, no
\* nonce and no expiry made and no ticket signed.
C5_RejectBeforeAnalysis ==
  \A p \in Procs :
    inv[p].error.message \in {E_Window, E_Status, "invalid request"} =>
      /\ inv[p].pc = "rejected"
      /\ inv[p].modelCalls = 0
      /\ inv[p].response = NoResponse
      /\ inv[p].nonce = <<>>
      /\ inv[p].expiresAtMs = 0
      /\ inv[p].signed = NoSigned

C5_Witness ==
  \E p \in Procs :
    /\ inv[p].pc = "rejected"
    /\ inv[p].error.message = E_Window
    /\ inv[p].via = "direct"
    /\ inv[p].modelCalls = 0

\* C6 (as claimed): the status check comes before the dispute-window check,
\* so a request with an identifier and evidence whose status is not Disputed
\* and whose dispute window is still open (now < dispute_by) is rejected with
\* the status error, not the dispute-window error.
C6_StatusErrorBeforeWindowError ==
  \A p \in Procs :
    (inv[p].pc = "rejected" /\ inv[p].response = NoResponse
       /\ Len(inv[p].request.deal.deal_id) > 0 /\ Len(inv[p].request.evidence) > 0
       /\ inv[p].request.deal.status # "Disputed"
       /\ inv[p].validatedAt < inv[p].request.deal.dispute_by) =>
      inv[p].error.message = E_Status

\* C7 (as claimed): no signed ticket is ever produced for a request with an
\* empty evidence list, on any path that reaches arbitration.
C7_NoTicketWithoutEvidence ==
  \A p \in Procs :
    inv[p].pc = "returned" => Len(inv[p].request.evidence) >= 1

\* C8: a reply of the model whose confidence is a number outside [0,1], whose
\* outcome is not exactly RELEASE or REFUND, or whose reason_short has more
\* than 200 characters ends the invocation with an error and no signed
\* ticket.
BadVerdict(obj) ==
  \/ Get(obj, "confidence").t = "number"
       /\ (Get(obj, "confidence").n < 0 \/ Get(obj, "confidence").n > Get(obj, "confidence").d)
  \/ Get(obj, "outcome").s \notin {S_RELEASE, S_REFUND}
  \/ Len(Get(obj, "reason_short").s) > 200

C8_BadVerdictRejected ==
  \A p \in Procs :
    (inv[p].response.kind = "json" /\ BadVerdict(inv[p].response.value.o)) =>
      /\ inv[p].pc = "rejected"
      /\ inv[p].signed = NoSigned
      /\ inv[p].error # NoError

C8_Witness ==
  \E p \in Procs :
    /\ inv[p].response.kind = "json"
    /\ Get(inv[p].response.value.o, "confidence") = JNum(3, 2)
    /\ inv[p].pc = "rejected"

\* C9: the ticket of every signed ticket returned satisfies the ticket
\* schema, field by field.
C9_ReturnedTicketWellFormed ==
  \A p \in Procs :
    inv[p].pc = "returned" =>
      /\ Field(p, "schema") = JStr(SchemaLiteral)
      /\ Field(p, "deal_id").t = "string" /\ Len(Field(p, "deal_id").s) >= 1
      /\ Field(p, "outcome") \in {JStr(S_RELEASE), JStr(S_REFUND)}
      /\ Field(p, "reason_short").t = "string" /\ Len(Field(p, "reason_short").s) <= 200
      /\ Field(p, "rationale_cid").t = "string"
      /\ Field(p, "violated_rules").t = "array"
      /\ Field(p, "confidence").t = "number"
      /\ 0 <= Field(p, "confidence").n /\ Field(p, "confidence").n <= Field(p, "confidence").d
      /\ Field(p, "nonce").t = "string"
      /\ Len(Field(p, "nonce").s) >= 1
      /\ \A i \in 1..Len(Field(p, "nonce").s) : Field(p, "nonce").s[i] \in Digits
      /\ Field(p, "expires_at_utc").t = "string"
      /\ Field(p, "expires_at_utc").s[Len(Field(p, "expires_at_utc").s)] = "Z"

C9_Witness ==
  \E p \in Procs :
    /\ inv[p].pc = "returned"
    /\ provider = "gemini"
    /\ Field(p, "confidence") = JNum(1, 1)

\* C10 (as claimed): the deal_id of every signed ticket returned is the
\* deal_id of the request.
C10_DealIdOfRequest ==
  \A p \in Procs :
    inv[p].pc = "returned" => Field(p, "deal_id") = JStr(inv[p].request.deal.deal_id)

\* C11 (as claimed): the nonce of every signed ticket returned is the nonce
\* arbitrateCase generated in that invocation, whatever nonce the model's
\* reply carried.
C11_NonceOfInvocation ==
  \A p \in Procs :
    inv[p].pc = "returned" => Field(p, "nonce") = JStr(inv[p].nonce)

\* C12 (as claimed): the expires_at_utc of every signed ticket returned is
\* the time the invocation made its expiry at plus 24 hours, whatever expiry
\* the model's reply carried.
C12_ExpiryOfInvocation ==
  \A p \in Procs :
    inv[p].pc = "returned" =>
      Field(p, "expires_at_utc") = JStr(ToISOString(inv[p].expiresAtMs))

\* C13 (as claimed): the nonce arbitrateCase generates, under either
\* provider, is a non-empty string of decimal digits.
C13_GeneratedNonceNumeric ==
  \A p \in Procs :
    inv[p].modelCalls > 0 => IsNumericString(inv[p].nonce)

\* C14 (as claimed): an invocation for an eligible request (Disputed, the
\* dispute window over, an identifier and evidence present) whose model reply
\* is the requested object, with the nonce and the expiry the prompt gave,
\* ends with a signed ticket that verifies.
C14_RequestedVerdictSigned ==
  \A p \in Procs :
    (/\ inv[p].pc \in {"returned", "rejected"}
     /\ Len(inv[p].request.deal.deal_id) >= 1
     /\ Len(inv[p].request.evidence) >= 1
     /\ inv[p].response =
          [kind |-> "json",
           value |-> JObject(RequestedOutput(inv[p].request, inv[p].nonce,
                                             ToISOString(inv[p].expiresAtMs)))]) =>
      /\ inv[p].pc = "returned"
      /\ GeminiVerifyTicket(inv[p].signed) = "true"
      /\ ClaudeVerifyTicket(inv[p].signed) = "true"

\* C16 (as claimed): a signed ticket whose ticket holds the same nine values
\* with its fields in another order, key and signature kept, verifies.
C16_ReorderedTicketVerifies ==
  \A p \in Procs :
    LET v == inv[p].verified
    IN v.tamper = "reorder" =>
         /\ \A i \in 1..Len(TicketKeys) :
              Get(v.input.ticket.o, TicketKeys[i]) = Field(p, TicketKeys[i])
         /\ v.result = "true"

\* C18: a signed ticket whose arbiter_pubkey was replaced by the public key
\* of another keypair, or whose ed25519_signature was replaced by a signature
\* of the same digest made with another secret key, does not verify.
C18_OnlyUnderSigningKey ==
  \A p \in Procs :
    LET v == inv[p].verified
    IN /\ v.tamper = "pubkey_other" =>
            /\ v.input.arbiter_pubkey # inv[p].signed.arbiter_pubkey
            /\ BufferFromHex(v.input.arbiter_pubkey) # arbiterKeypair.publicKey
            /\ v.input.ticket = inv[p].signed.ticket
            /\ v.input.ed25519_signature = inv[p].signed.ed25519_signature
            /\ v.result = "false"
       /\ v.tamper = "sig_other_key" =>
            /\ BufferFromHex(v.input.ed25519_signature).seed # arbiterKeypair.secretKey
            /\ v.input.ticket = inv[p].signed.ticket
            /\ v.input.arbiter_pubkey = inv[p].signed.arbiter_pubkey
            /\ v.result = "false"

C18_Witness ==
  \E p \in Procs :
    /\ inv[p].verified.tamper = "sig_other_key"
    /\ inv[p].verified.result = "false"
    /\ GeminiVerifyTicket(inv[p].signed) = "true"

\* C19: the ticket of every signed ticket returned holds exactly the nine
\* fields of the schema, also when the model's reply carried another field,
\* and a signed ticket to whose ticket a field (a key with a JSON value) was
\* added afterwards does not verify.
C19_ExactlyNineFields ==
  \A p \in Procs :
    /\ inv[p].pc = "returned" =>
         [i \in 1..Len(inv[p].signed.ticket.o) |-> inv[p].signed.ticket.o[i].k] = TicketKeys
    /\ inv[p].verified.tamper = "add_field" =>
         /\ Len(inv[p].verified.input.ticket.o) = Len(TicketKeys) + 1
         /\ inv[p].verified.result = "false"

C19_Witness ==
  \E p \in Procs :
    /\ inv[p].pc = "returned"
    /\ HasKey(inv[p].response.value.o, "note")
    /\ inv[p].verified.tamper = "add_field"
    /\ inv[p].verified.result = "false"

\* C20 (as claimed): a reply of the model whose schema is not the fixed
\* literal, and which is valid otherwise, ends with a signed ticket whose
\* schema is the fixed literal.
C20_SchemaOverwritten ==
  \A p \in Procs :
    (/\ inv[p].pc \in {"returned", "rejected"}
     /\ inv[p].response.kind = "json"
     /\ Get(inv[p].response.value.o, "schema") # JStr(SchemaLiteral)
     /\ ResolveTicketSchemaParse(
          JObject(Set(inv[p].response.value.o, "schema", JStr(SchemaLiteral)))).ok) =>
      /\ inv[p].pc = "returned"
      /\ Field(p, "schema") = JStr(SchemaLiteral)

NonceOf(signedTicket) == Get(signedTicket.ticket.o, "nonce")

\* C15 (as claimed): no two of the tickets issued carry the same nonce.
C15_NoncesUnique ==
  \A i, j \in 1..Len(issued) : i # j => NonceOf(issued[i]) # NonceOf(issued[j])

\* C17: verifyTicket depends on the signed ticket only: all verifications of
\* one signed ticket have the same result, whatever the time (before or after
\* its expires_at_utc), whether or not its nonce was verified before, and
\* whether or not other tickets were issued since; a ticket kept as issued
\* verifies also after its expiry and after its nonce was seen.
C17_VerifyPure ==
  /\ \A c1, c2 \in checks : c1.input = c2.input => c1.result = c2.result
  /\ \A c \in checks : c.result = "true"

C17_Witness ==
  \E c1, c2 \in checks :
    /\ c1.input = c2.input
    /\ ~c1.expired /\ ~c1.seen /\ ~c1.later
    /\ c2.expired /\ c2.seen /\ c2.later
    /\ c1.result = "true" /\ c2.result = "true"

\* The rules in the prompt of the model call the invocation made (none when
\* it has made no call): buildContextPrompt and buildSystemPrompt put
\* SYSTEM_PROMPT and getPolicyForPrompt() first.
PromptRules(rec) == IF rec.modelCalls > 0 THEN ESCROW_POLICY_V1 ELSE <<>>

\* C21 (as claimed): the precedence values of the rules of ESCROW_POLICY_V1,
\* as every prompt carries them, are pairwise distinct, so no two rules with
\* different outcomes tie.
C21_PrecedencesDistinct ==
  \A p \in Procs :
    LET rules == PromptRules(inv[p])
    IN \A i, j \in 1..Len(rules) : i # j => rules[i].precedence # rules[j].precedence

\* C22 (as claimed): exactly one rule has an empty required_evidence list,
\* it is insufficient_evidence, the rule of the lowest precedence, its outcome
\* is REFUND, and every rule's outcome is RELEASE or REFUND.
C22_OneDefaultRule ==
  \A p \in Procs :
    LET rules == PromptRules(inv[p])
        noEvidence == {i \in 1..Len(rules) : rules[i].required_evidence = <<>>}
    IN rules # <<>> =>
         /\ Cardinality(noEvidence) = 1
         /\ \A i \in noEvidence :
              /\ rules[i].id = S_insufficient_evidence
              /\ rules[i].outcome = S_REFUND
              /\ \A j \in 1..Len(rules) : rules[i].precedence <= rules[j].precedence
         /\ \A i \in 1..Len(rules) : rules[i].outcome \in {S_RELEASE, S_REFUND}

\* C23 (as claimed): the rules, in the order of the array, which is the order
\* every prompt lists them in, are sorted in descending order of precedence.
C23_SortedByPrecedence ==
  \A p \in Procs :
    LET rules == PromptRules(inv[p])
    IN \A i \in 1..(Len(rules) - 1) : rules[i].precedence >= rules[i + 1].precedence

\* C25 (as claimed): a Gemini invocation whose model call failed (a 429 is
\* one of the API errors) has called the model again before it reports the
\* failure.
C25_RateLimitRetried ==
  \A p \in Procs :
    (provider = "gemini" /\ inv[p].pc = "rejected" /\ inv[p].response.kind = "error") =>
      inv[p].modelCalls >= 2

\* The console.warn calls of an invocation: the evidence items whose file
\* fetchEvidenceFile could not fetch (Gemini, items that are not text);
\* nothing else on the path of arbitrateCase warns.
ConsoleWarn(prov, rec) ==
  IF prov = "gemini" /\ rec.pc \in {"model", "returned", "rejected"} /\ rec.modelCalls > 0
    THEN SelectSeq(rec.request.evidence, LAMBDA ev : ev.type # "text")
    ELSE <<>>

UnknownRules(value) ==
  {i \in 1..Len(value.a) : value.a[i] \notin PolicyIds}

\* The reply is the requested object with a numeric nonce but for its
\* violated_rules, which name a rule that is not in the policy table.
OnlyUnknownRules(rec) ==
  /\ rec.response.kind = "json"
  /\ Len(rec.request.deal.deal_id) >= 1
  /\ UnknownRules(Get(rec.response.value.o, "violated_rules")) # {}
  /\ rec.response.value.o =
       Set(RequestedOutput(rec.request, <<"4", "2">>, ToISOString(rec.expiresAtMs)),
           "violated_rules", Get(rec.response.value.o, "violated_rules"))

\* C26 (as claimed): such a reply is not rejected, the ticket is signed with
\* the violated_rules of the reply unchanged, and the unknown identifiers are
\* flagged with a warning.
C26_UnknownRulesFlagged ==
  \A p \in Procs :
    OnlyUnknownRules(inv[p]) =>
      /\ inv[p].pc = "returned"
      /\ Field(p, "violated_rules") = Get(inv[p].response.value.o, "violated_rules")
      /\ ConsoleWarn(provider, inv[p]) # <<>>

\* C28 (as claimed): POST /arbitrate answers 400 only when the body fails
\* ArbitrationRequestSchema; with a valid body and a reply of the model that
\* fails ResolveTicketSchema it answers 500, under both providers.
C28_Status400OnlyForBody ==
  \A p \in Procs :
    inv[p].via = "http" =>
      /\ inv[p].status = 400 => ~ArbitrationRequestSchemaOk(inv[p].request)
      /\ (inv[p].pc = "rejected" /\ inv[p].response.kind = "json") => inv[p].status = 500

C27_OwnTicketUnderInterleaving ==
  \A t \in Tasks :
    inv[t].pc = "returned" =>
      /\ Get(inv[t].signed.ticket.o, "nonce") = JStr(inv[t].nonce)
      /\ Get(inv[t].signed.ticket.o, "expires_at_utc") = JStr(ToISOString(inv[t].expiresAtMs))
      /\ Get(inv[t].signed.ticket.o, "deal_id") = JStr(OwnRequest(t).deal.deal_id)
      /\ inv[t].signed.arbiter_pubkey = ToHex(arbiterKeypair.publicKey)
      /\ arbiterKeypair \in {KeyPairFromSeed(s) : s \in Seeds}

\* The secret is the hex text of a 32-byte seed or of a 64-byte secret key.
WellFormedSecret(secretHex) ==
  /\ secretHex.t = "string"
  /\ secretHex.tail = <<>>
  /\ secretHex.bytes.len \in {32, 64}

\* C24 (as claimed): with key material that is missing, not hex, or not of
\* the expected length, no arbiter is constructed and no ticket is signed.
C24_MalformedKeyFatal ==
  \A p \in Procs :
    inv[p].pc = "returned" =>
      /\ Started
      /\ WellFormedSecret(config.secretHex)

\* The request `h` needed the admin key `adminKey` and did not carry it.
Unauthenticated(h, adminKey) ==
  /\ h # NoHttp
  /\ adminKey # ""
  /\ h.path \notin OpenPaths
  /\ h.key # adminKey

====
